---- MODULE Spec2Model ----
(***************************************************************************)
(* Payroll calculator of Exercise1/payroll.py: safe_number,                *)
(* calc_progressive_tax, compute_employee_payroll, load_employees and the  *)
(* batch run main.                                                         *)
(*                                                                         *)
(* Numbers.  A Python float is modelled as a record [k, v]:                *)
(*   k = "fin"  a finite value, v its amount in 1/Scale units (mills);     *)
(*   k = "inf"  an infinity, v its sign (1 or -1);                         *)
(*   k = "nan"  not-a-number, v = 0.                                       *)
(* Finite arithmetic is exact.  round(x, 2) returns the nearest multiple   *)
(* of 0.01; when x lies exactly halfway between two of them the binary     *)
(* representation error of x decides the direction, so the model takes     *)
(* the direction of every such tie as an input (the flag "up").            *)
(* Comparisons follow IEEE 754 as Python's <, <= do: every comparison      *)
(* with not-a-number is false.                                             *)
(***************************************************************************)
EXTENDS Integers, Sequences, FiniteSets, TLC

VARIABLES
    g1, g2, t1, t2, tpc,                      \* calc_progressive_tax applied to two inputs
    emp, out, rpc,                            \* compute_employee_payroll applied to one record
    data, pc, employees, idx, results, report_json,
    exc, saved, printed, attempted            \* the batch run main: saved and printed
                                              \* list the calls of save_report and
                                              \* print_report, attempted the indices
                                              \* compute_employee_payroll was called on

vars == <<g1, g2, t1, t2, tpc, emp, out, rpc, data, pc, employees, idx,
          results, report_json, exc, saved, printed, attempted>>

taxVars == <<g1, g2, t1, t2, tpc>>
recVars == <<emp, out, rpc>>
mainVars == <<data, pc, employees, idx, results, report_json, exc, saved, printed, attempted>>

----------------------------------------------------------------------------
(* Floats *)

\* units per 1.0: amounts are held in thousandths
Scale == 1000

\* units per 0.01, the resolution of round(x, 2)
Cent == Scale \div 100

Fin(n) == [k |-> "fin", v |-> n]
PosInf == [k |-> "inf", v |-> 1]
NegInf == [k |-> "inf", v |-> -1]
NaN == [k |-> "nan", v |-> 0]
Zero == Fin(0)

\* no value
None == [k |-> "none", v |-> 0]

\* a whole amount, as written in the source (25000, 50000, ...)
Whole(n) == Fin(n * Scale)

IsNaN(a) == a.k = "nan"
IsFinite(a) == a.k = "fin"

Sign(a) == IF a.k = "nan" THEN 0
           ELSE IF a.v > 0 THEN 1 ELSE IF a.v < 0 THEN -1 ELSE 0

\* a < b
Lt(a, b) ==
    IF IsNaN(a) \/ IsNaN(b) THEN FALSE
    ELSE IF a.k = "inf" THEN a.v = -1 /\ b # NegInf
    ELSE IF b.k = "inf" THEN b.v = 1
    ELSE a.v < b.v

\* a <= b
Le(a, b) ==
    IF IsNaN(a) \/ IsNaN(b) THEN FALSE
    ELSE a = b \/ Lt(a, b)

\* a + b
Add(a, b) ==
    IF IsNaN(a) \/ IsNaN(b) THEN NaN
    ELSE IF a.k = "inf" /\ b.k = "inf" THEN (IF a.v = b.v THEN a ELSE NaN)
    ELSE IF a.k = "inf" THEN a
    ELSE IF b.k = "inf" THEN b
    ELSE Fin(a.v + b.v)

\* -a
Neg(a) == IF IsNaN(a) THEN NaN ELSE [k |-> a.k, v |-> -a.v]

\* a - b
Sub(a, b) == Add(a, Neg(b))

\* a * b for two amounts; the inputs are drawn so that the product is a whole
\* number of units
Mul(a, b) ==
    IF IsNaN(a) \/ IsNaN(b) THEN NaN
    ELSE IF a.k = "inf" \/ b.k = "inf"
         THEN (IF Sign(a) * Sign(b) = 0 THEN NaN
               ELSE [k |-> "inf", v |-> Sign(a) * Sign(b)])
    ELSE Fin((a.v * b.v) \div Scale)

\* n / per rounded to the nearest integer; a tie goes up iff up
RoundDiv(n, per, up) ==
    LET q == n \div per
        r == n % per
    IN IF 2 * r < per THEN q
       ELSE IF 2 * r > per THEN q + 1
       ELSE IF up THEN q + 1 ELSE q

\* round(a, 2) for an amount whose v counts 1/(Cent * fine) of 0.01
RoundFine(a, fine, up) ==
    IF a.k # "fin" THEN a
    ELSE Fin(RoundDiv(a.v, Cent * fine, up) * Cent)

\* round(a, 2)
Round2(a, up) == RoundFine(a, 1, up)

\* Python's min(a, b): a unless b < a
Min(a, b) == IF Lt(b, a) THEN b ELSE a

----------------------------------------------------------------------------
(* calc_progressive_tax *)

\* rates are held in percent: 0.05 is 5
PerCent == 100

slabs == << [limit |-> Whole(25000), rate |-> 0],
            [limit |-> Whole(50000), rate |-> 5],
            [limit |-> Whole(100000), rate |-> 10],
            [limit |-> PosInf, rate |-> 20] >>

\* chunk * rate, in 1/PerCent of a unit
MulRate(chunk, rate) ==
    IF IsNaN(chunk) THEN NaN
    ELSE IF chunk.k = "inf"
         THEN (IF rate = 0 THEN NaN ELSE [k |-> "inf", v |-> chunk.v])
    ELSE Fin(chunk.v * rate)

\* a mutant of SlabChunk: the width of the band is taken from zero
SlabChunkFromZero(remaining, limit, prev_limit) == Min(remaining, limit)

\* chunk = min(remaining, limit - prev_limit)
SlabChunk(remaining, limit, prev_limit) == Min(remaining, Sub(limit, prev_limit))

\* if chunk <= 0: break
SlabStops(chunk) == Le(chunk, Zero)

RECURSIVE TaxLoop(_, _, _, _)
\* the for loop over slabs from slab i on; tax counts 1/PerCent of a unit
TaxLoop(i, tax, prev_limit, remaining) ==
    IF i > Len(slabs) THEN tax
    ELSE LET limit == slabs[i].limit
             rate == slabs[i].rate
             chunk == SlabChunk(remaining, limit, prev_limit)
         IN IF SlabStops(chunk) THEN tax
            ELSE TaxLoop(i + 1, Add(tax, MulRate(chunk, rate)), limit,
                         Sub(remaining, chunk))

calc_progressive_tax(monthly_gross, up) ==
    RoundFine(TaxLoop(1, Zero, Zero, monthly_gross), PerCent, up)

----------------------------------------------------------------------------
(* Inputs of calc_progressive_tax *)

\* how many steps on each side of an anchor are sampled
TaxWindow == 3

TaxAnchors == {0, 25000, 50000, 100000, 150000}

\* steps of 0.001 and of 0.05 around each anchor: the first reach below one
\* cent, the second reach the amounts whose tax ends in half a cent
TaxOffsets == {d : d \in -TaxWindow..TaxWindow}
              \cup {50 * d : d \in -TaxWindow..TaxWindow}

GrossSamples == {Fin(a * Scale + d) : a \in TaxAnchors, d \in TaxOffsets}
                \cup {PosInf, NegInf, NaN}

----------------------------------------------------------------------------
(* JSON values, as json.load returns them *)

JNull == [t |-> "null"]
JNum(n) == [t |-> "num", n |-> n]
\* an integer literal beyond the range of a float; sign is 1 or -1
JBig(sign) == [t |-> "bigint", sign |-> sign]
JBool(b) == [t |-> "bool", b |-> b]
\* a string is the sequence of its characters
JStr(s) == [t |-> "str", s |-> s]
JList(len) == [t |-> "list", len |-> len]
JObj(m) == [t |-> "obj", m |-> m]

EmptyMap == << >>

\* dict.get(key, default)
Get(m, key, default) == IF key \in DOMAIN m THEN m[key] ELSE default

\* bool(x), as "x or {}" tests it
Truthy(x) ==
    CASE x.t = "null" -> FALSE
      [] x.t = "num" -> x.n # Zero
      [] x.t = "bigint" -> TRUE
      [] x.t = "bool" -> x.b
      [] x.t = "str" -> Len(x.s) > 0
      [] x.t = "list" -> x.len > 0
      [] x.t = "obj" -> DOMAIN x.m # {}

Whitespace == {" ", "\t", "\n"}

RECURSIVE LStrip(_)
LStrip(s) ==
    IF Len(s) > 0 /\ Head(s) \in Whitespace THEN LStrip(Tail(s)) ELSE s

RECURSIVE RStrip(_)
RStrip(s) ==
    IF Len(s) > 0 /\ s[Len(s)] \in Whitespace THEN RStrip(SubSeq(s, 1, Len(s) - 1)) ELSE s

\* a mutant of Strip: only the leading whitespace goes
StripLeft(s) == LStrip(s)

\* str.strip()
Strip(s) == RStrip(LStrip(s))

\* str(x) of the values an id or a name is drawn from
Str(x) ==
    CASE x.t = "str" -> x.s
      [] x.t = "null" -> <<"N", "o", "n", "e">>
      [] x.t = "bool" -> IF x.b THEN <<"T", "r", "u", "e">>
                                ELSE <<"F", "a", "l", "s", "e">>

\* float(s) of the strings a monetary field is drawn from: [st, n]
FloatOfStr(s) ==
    CASE s = <<"1", "2", ".", "5">> -> [st |-> "ok", n |-> Fin(12500)]
      [] s = <<" ", "7", " ">> -> [st |-> "ok", n |-> Whole(7)]
      [] s = <<"-", "3">> -> [st |-> "ok", n |-> Whole(-3)]
      [] s = <<"i", "n", "f">> -> [st |-> "ok", n |-> PosInf]
      [] s = <<"-", "i", "n", "f">> -> [st |-> "ok", n |-> NegInf]
      [] s = <<"n", "a", "n">> -> [st |-> "ok", n |-> NaN]
      [] s = <<"a", "b", "c">> -> [st |-> "ValueError", n |-> None]
      [] s = << >> -> [st |-> "ValueError", n |-> None]

\* float(value): [st, n] with st "ok" or the exception float raises
ToFloat(value) ==
    CASE value.t = "num" -> [st |-> "ok", n |-> value.n]
      [] value.t = "bool" -> [st |-> "ok", n |-> IF value.b THEN Whole(1) ELSE Zero]
      [] value.t = "str" -> FloatOfStr(value.s)
      [] value.t = "bigint" -> [st |-> "OverflowError", n |-> None]
      [] value.t \in {"null", "list", "obj"} -> [st |-> "TypeError", n |-> None]

----------------------------------------------------------------------------
(* safe_number and compute_employee_payroll *)

Ret(val) == [st |-> "ok", val |-> val]

\* an exception: its Python type, what it reports and the field it names
Raise(type, what, field) == [st |-> "raise", type |-> type, what |-> what, field |-> field]

\* a mutant of safe_number: the negative check is missing
SafeNumberNoNegative(value, field_name) ==
    LET c == ToFloat(value)
    IN IF c.st \in {"TypeError", "ValueError"}
       THEN Raise("ValueError", "invalid_number", field_name)
       ELSE IF c.st # "ok" THEN Raise(c.st, "float", "")
       ELSE Ret(c.n)

safe_number(value, field_name) ==
    LET c == ToFloat(value)
    IN IF c.st \in {"TypeError", "ValueError"}
       THEN Raise("ValueError", "invalid_number", field_name)
       ELSE IF c.st # "ok" THEN Raise(c.st, "float", "")
       ELSE IF Lt(c.n, Zero) THEN Raise("ValueError", "negative_value", field_name)
       ELSE Ret(c.n)

\* the first exception of a sequence of evaluations, in program order
RECURSIVE FirstRaise(_)
FirstRaise(rs) ==
    IF Len(rs) = 0 THEN Ret(None)
    ELSE IF Head(rs).st = "raise" THEN Head(rs)
    ELSE FirstRaise(Tail(rs))

\* pay.get(key, {}) or {}, ready for .get: the mapping, or the AttributeError
\* of calling .get on a value that has none
SubMapping(pay, key) ==
    LET v == Get(pay, key, JObj(EmptyMap))
        w == IF Truthy(v) THEN v ELSE JObj(EmptyMap)
    IN IF w.t = "obj" THEN Ret(w.m) ELSE Raise("AttributeError", "get", "")

JZero == JNum(Zero)

\* lines 66-71: total_allowances
Allowances(pay) ==
    LET c == SubMapping(pay, "allowances")
    IN IF c.st = "raise" THEN c
       ELSE LET hra == safe_number(Get(c.val, "hra", JZero), "allowances.hra")
                da == safe_number(Get(c.val, "da", JZero), "allowances.da")
                bonus == safe_number(Get(c.val, "bonus", JZero), "allowances.bonus")
                other_allow == safe_number(Get(c.val, "other", JZero), "allowances.other")
                e == FirstRaise(<<hra, da, bonus, other_allow>>)
            IN IF e.st = "raise" THEN e
               ELSE Ret(Add(Add(Add(hra.val, da.val), bonus.val), other_allow.val))

\* a mutant of Overtime: hours and rate are added
OvertimeAdds(pay) ==
    LET c == SubMapping(pay, "overtime")
    IN IF c.st = "raise" THEN c
       ELSE LET ot_hours == safe_number(Get(c.val, "hours", JZero), "overtime.hours")
                ot_rate == safe_number(Get(c.val, "rate_per_hour", JZero),
                                       "overtime.rate_per_hour")
                e == FirstRaise(<<ot_hours, ot_rate>>)
            IN IF e.st = "raise" THEN e ELSE Ret(Add(ot_hours.val, ot_rate.val))

\* lines 73-76: overtime_pay
Overtime(pay) ==
    LET c == SubMapping(pay, "overtime")
    IN IF c.st = "raise" THEN c
       ELSE LET ot_hours == safe_number(Get(c.val, "hours", JZero), "overtime.hours")
                ot_rate == safe_number(Get(c.val, "rate_per_hour", JZero),
                                       "overtime.rate_per_hour")
                e == FirstRaise(<<ot_hours, ot_rate>>)
            IN IF e.st = "raise" THEN e ELSE Ret(Mul(ot_hours.val, ot_rate.val))

\* lines 81-86: total_deductions
Deductions(pay, up) ==
    LET c == SubMapping(pay, "deductions")
    IN IF c.st = "raise" THEN c
       ELSE LET pf == safe_number(Get(c.val, "pf", JZero), "deductions.pf")
                prof_tax == safe_number(Get(c.val, "professional_tax", JZero),
                                        "deductions.professional_tax")
                insurance == safe_number(Get(c.val, "insurance", JZero),
                                         "deductions.insurance")
                other_ded == safe_number(Get(c.val, "other", JZero), "deductions.other")
                e == FirstRaise(<<pf, prof_tax, insurance, other_ded>>)
            IN IF e.st = "raise" THEN e
               ELSE Ret(Round2(Add(Add(Add(pf.val, prof_tax.val), insurance.val),
                                   other_ded.val), up))

\* a mutant of NetPay: a negative net pay is floored at zero
NetPayFloored(gross, total_deductions, tax, up) ==
    LET net == Round2(Sub(Sub(gross, total_deductions), tax), up)
    IN IF Lt(net, Zero) THEN Zero ELSE net

\* line 89: net
NetPay(gross, total_deductions, tax, up) ==
    Round2(Sub(Sub(gross, total_deductions), tax), up)

\* the directions of the ties of the four round(x, 2) of one call
Ups == [gross : BOOLEAN, ded : BOOLEAN, tax : BOOLEAN, net : BOOLEAN]

PayrollResult(employee_id, name, gross_pay, total_deductions, tax, net_pay) ==
    [employee_id |-> employee_id, name |-> name, gross_pay |-> gross_pay,
     total_deductions |-> total_deductions, tax |-> tax, net_pay |-> net_pay]

\* lines 63-98, for a pay mapping
PayOf(emp_id, name, pay, up) ==
    LET base == safe_number(Get(pay, "base_salary", JZero), "base_salary")
        total_allowances == Allowances(pay)
        overtime_pay == Overtime(pay)
        total_deductions == Deductions(pay, up.ded)
        e == FirstRaise(<<base, total_allowances, overtime_pay, total_deductions>>)
    IN IF e.st = "raise" THEN e
       ELSE LET gross == Round2(Add(Add(base.val, total_allowances.val),
                                    overtime_pay.val), up.gross)
                tax == calc_progressive_tax(gross, up.tax)
                net == NetPay(gross, total_deductions.val, tax, up.net)
            IN Ret(PayrollResult(emp_id, name, gross, total_deductions.val, tax, net))

compute_employee_payroll(e, up) ==
    LET emp_id == Strip(Str(Get(e, "id", JStr(<< >>))))
        name == Strip(Str(Get(e, "name", JStr(<< >>))))
    IN IF Len(emp_id) = 0 \/ Len(name) = 0
       THEN Raise("ValueError", "missing_identity", "")
       ELSE LET pay == Get(e, "pay", JObj(EmptyMap))
            IN IF pay.t # "obj" THEN Raise("AttributeError", "get", "")
               ELSE PayOf(emp_id, name, pay.m, up)

----------------------------------------------------------------------------
(* calc_progressive_tax applied to a pair of inputs *)

TaxIdle == /\ g1 = None /\ g2 = None /\ t1 = None /\ t2 = None /\ tpc = "idle"

TaxInit ==
    /\ g1 \in GrossSamples
    /\ g2 \in GrossSamples
    /\ t1 = None
    /\ t2 = None
    /\ tpc = "call"

\* both calls; equal inputs are the same float, so they round the same way
CalcTax ==
    /\ tpc = "call"
    /\ \E up1, up2 \in BOOLEAN :
          /\ (g1 = g2 => up1 = up2)
          /\ t1' = calc_progressive_tax(g1, up1)
          /\ t2' = calc_progressive_tax(g2, up2)
    /\ tpc' = "done"
    /\ UNCHANGED <<g1, g2>>

----------------------------------------------------------------------------
(* Employee records: the inputs of compute_employee_payroll *)

Absent == [t |-> "absent"]
\* a mapping made of the fields below it
Children == [t |-> "children"]

AllowanceKeys == {"hra", "da", "bonus", "other"}
OvertimeKeys == {"hours", "rate_per_hour"}
DeductionKeys == {"pf", "professional_tax", "insurance", "other"}
SubMappings == {"allowances", "overtime", "deductions"}

KeysOf(sub) ==
    CASE sub = "allowances" -> AllowanceKeys
      [] sub = "overtime" -> OvertimeKeys
      [] sub = "deductions" -> DeductionKeys

\* the places of a record a value can stand at: <<key>> in the record,
\* <<"pay", key>> in pay, <<"pay", sub, key>> in a mapping of pay
IdPaths == {<<"id">>, <<"name">>}
ShapePaths == {<<"pay">>} \cup {<<"pay", sub>> : sub \in SubMappings}
MoneyPaths == {<<"pay", "base_salary">>}
              \cup {<<"pay", "allowances", k>> : k \in AllowanceKeys}
              \cup {<<"pay", "overtime", k>> : k \in OvertimeKeys}
              \cup {<<"pay", "deductions", k>> : k \in DeductionKeys}
Paths == IdPaths \cup ShapePaths \cup MoneyPaths

\* the field name safe_number is given for a monetary field
Label(p) ==
    IF Len(p) = 2 THEN "base_salary"
    ELSE CASE p[2] = "allowances" ->
                (CASE p[3] = "hra" -> "allowances.hra" [] p[3] = "da" -> "allowances.da"
                   [] p[3] = "bonus" -> "allowances.bonus"
                   [] p[3] = "other" -> "allowances.other")
           [] p[2] = "overtime" ->
                (CASE p[3] = "hours" -> "overtime.hours"
                   [] p[3] = "rate_per_hour" -> "overtime.rate_per_hour")
           [] p[2] = "deductions" ->
                (CASE p[3] = "pf" -> "deductions.pf"
                   [] p[3] = "professional_tax" -> "deductions.professional_tax"
                   [] p[3] = "insurance" -> "deductions.insurance"
                   [] p[3] = "other" -> "deductions.other")

\* a form gives every path a value, Absent or Children; Build makes the record
BuildMap(form, prefix, keys) ==
    [k \in {k \in keys : form[Append(prefix, k)].t # "absent"} |->
        LET v == form[Append(prefix, k)]
        IN IF v.t = "children"
           THEN JObj([j \in {j \in KeysOf(k) : form[<<"pay", k, j>>].t # "absent"} |->
                        form[<<"pay", k, j>>]])
           ELSE v]

Build(form) ==
    [k \in {k \in {"id", "name", "pay"} : form[<<k>>].t # "absent"} |->
        IF form[<<k>>].t = "children"
        THEN JObj(BuildMap(form, <<"pay">>, {"base_salary"} \cup SubMappings))
        ELSE form[<<k>>]]

\* form with value v at path p; the mappings above p are made present
Override(form, p, v) ==
    [q \in Paths |->
        IF q = p THEN v
        ELSE IF v.t # "absent" /\ Len(q) < Len(p) /\ q = SubSeq(p, 1, Len(q))
             THEN Children
        ELSE form[q]]

IdVals == {Absent, JNull, JStr(<< >>), JStr(<<" ">>), JStr(<<"\t", " ">>),
           JStr(<<"E", "1">>), JStr(<<" ", "E", "1", "\n">>), JStr(<<"A", " ", "b">>)}

ShapeVals == {Absent, JNull, JNum(Zero), JNum(Whole(5)), JStr(<<"a", "b", "c">>),
              JStr(<< >>), JList(0), JList(2), JObj(EmptyMap), JBool(TRUE)}

MoneyVals == {Absent, JNull, JList(0), JObj(EmptyMap), JBool(TRUE), JBig(1), JBig(-1),
              JNum(Zero), JNum(Fin(12500)), JNum(Whole(-3)),
              JNum(PosInf), JNum(NegInf), JNum(NaN),
              JStr(<<"1", "2", ".", "5">>), JStr(<<" ", "7", " ">>), JStr(<<"-", "3">>),
              JStr(<<"i", "n", "f">>), JStr(<<"-", "i", "n", "f">>), JStr(<<"n", "a", "n">>),
              JStr(<<"a", "b", "c">>), JStr(<< >>)}

ValsFor(p) ==
    IF p \in IdPaths THEN IdVals
    ELSE IF p \in ShapePaths THEN ShapeVals
    ELSE MoneyVals

\* the record {id: "E1", name: "A"}
BareForm ==
    [q \in Paths |-> IF q = <<"id">> THEN JStr(<<"E", "1">>)
                     ELSE IF q = <<"name">> THEN JStr(<<"A">>)
                     ELSE Absent]

\* amounts in thousandths: 30000, 25000.10, 120000; 0.005; 0.005, 40000
BaseVals == {Absent, JNum(Whole(30000)), JNum(Fin(25000100)), JNum(Whole(120000))}
BonusVals == {Absent, JNum(Fin(5))}
PfVals == {Absent, JNum(Fin(5)), JNum(Whole(40000))}
\* hours and rate_per_hour: none, 0.5 at 0.01, 1.5 at 100
OvertimeVals == {<<Absent, Absent>>, <<JNum(Fin(500)), JNum(Fin(10))>>,
                 <<JNum(Fin(1500)), JNum(Whole(100))>>}

Backgrounds ==
    {Override(Override(Override(Override(Override(Override(BareForm,
        <<"pay">>, Children),
        <<"pay", "base_salary">>, b),
        <<"pay", "allowances", "bonus">>, bonus),
        <<"pay", "overtime", "hours">>, ot[1]),
        <<"pay", "overtime", "rate_per_hour">>, ot[2]),
        <<"pay", "deductions", "pf">>, pf) :
     b \in BaseVals, bonus \in BonusVals, ot \in OvertimeVals, pf \in PfVals}

\* every background with one path set to every value that can stand there
RecordInputs ==
    {Build(Override(bg, p[1], p[2])) :
        bg \in Backgrounds, p \in UNION {{<<q, v>> : v \in ValsFor(q)} : q \in Paths}}

----------------------------------------------------------------------------
(* compute_employee_payroll applied to one record *)

\* no outcome yet
Pending == [st |-> "none"]

RecIdle == /\ emp = EmptyMap /\ out = Pending /\ rpc = "idle"

RecInit ==
    /\ emp \in RecordInputs
    /\ out = Pending
    /\ rpc = "call"

Compute ==
    /\ rpc = "call"
    /\ \E up \in Ups : out' = compute_employee_payroll(emp, up)
    /\ rpc' = "done"
    /\ UNCHANGED emp

----------------------------------------------------------------------------
(* load_employees, save_report, print_report and main *)

\* the content of employees.json: an array of records, another JSON value,
\* or text that is not JSON
JArray(items) == [t |-> "array", items |-> items]
NotJson == [t |-> "invalid"]

load_employees(d) ==
    IF d.t = "invalid" THEN Raise("JSONDecodeError", "json", "")
    ELSE IF d.t # "array" THEN Raise("ValueError", "not_array", "")
    ELSE Ret(d.items)

\* lines 140-147: the entry of the report made of a result
ReportEntry(r) ==
    [id |-> r.employee_id, name |-> r.name, gross_pay |-> r.gross_pay,
     total_deductions |-> r.total_deductions, tax |-> r.tax, net_pay |-> r.net_pay]

\* a mutant of AppendEntry: the entry is put first
PrependEntry(report, entry) == <<entry>> \o report

\* report_json.append(entry)
AppendEntry(report, entry) == Append(report, entry)

\* the longest batch
MaxBatch == 3

RECURSIVE SeqsUpTo(_, _)
SeqsUpTo(S, n) ==
    IF n = 0 THEN {<< >>}
    ELSE LET shorter == SeqsUpTo(S, n - 1)
         IN shorter \cup {Append(q, x) : q \in {r \in shorter : Len(r) = n - 1}, x \in S}

BatchForms ==
    {Override(BareForm, <<"pay", "base_salary">>, JNum(Whole(30000))),
     Override(Override(Override(Override(BareForm,
        <<"name">>, JStr(<<" ", "B", " ">>)),
        <<"pay", "base_salary">>, JNum(Fin(25000100))),
        <<"pay", "overtime", "hours">>, JNum(Fin(500))),
        <<"pay", "overtime", "rate_per_hour">>, JNum(Fin(10))),
     Override(Override(BareForm,
        <<"pay", "base_salary">>, JNum(Whole(5))),
        <<"pay", "deductions", "pf">>, JNum(Whole(10))),
     Override(BareForm, <<"pay", "base_salary">>, JStr(<<"i", "n", "f">>)),
     Override(BareForm, <<"name">>, Absent),
     Override(BareForm, <<"pay", "base_salary">>, JStr(<<"a", "b", "c">>)),
     Override(BareForm, <<"pay", "allowances", "hra">>, JNum(Whole(-3))),
     Override(BareForm, <<"pay">>, JNull)}

BatchRecords == {Build(f) : f \in BatchForms}

DataInputs == {JArray(b) : b \in SeqsUpTo(BatchRecords, MaxBatch)}
              \cup {JObj(EmptyMap), JNull, NotJson}

MainIdle ==
    /\ data = JNull /\ pc = "idle" /\ employees = << >> /\ idx = 0
    /\ results = << >> /\ report_json = << >> /\ exc = Pending
    /\ saved = << >> /\ printed = << >> /\ attempted = << >>

MainInit ==
    /\ data \in DataInputs
    /\ pc = "load"
    /\ employees = << >>
    /\ idx = 0
    /\ results = << >>
    /\ report_json = << >>
    /\ exc = Pending
    /\ saved = << >>
    /\ printed = << >>
    /\ attempted = << >>

\* line 131-134
Load ==
    /\ pc = "load"
    /\ LET r == load_employees(data)
       IN IF r.st = "raise"
          THEN /\ exc' = r
               /\ pc' = "crashed"
               /\ UNCHANGED <<employees, idx>>
          ELSE /\ employees' = r.val
               /\ idx' = 1
               /\ pc' = "loop"
               /\ UNCHANGED exc
    /\ UNCHANGED <<data, results, report_json, saved, printed, attempted>>

\* a mutant of Iterate: a record that fails is skipped and the run goes on
IterateSkipping ==
    /\ pc = "loop"
    /\ idx <= Len(employees)
    /\ attempted' = Append(attempted, idx)
    /\ \E up \in Ups :
         LET r == compute_employee_payroll(employees[idx], up)
         IN IF r.st = "raise"
            THEN /\ exc' = r
                 /\ idx' = idx + 1
                 /\ UNCHANGED <<pc, results, report_json>>
            ELSE /\ results' = Append(results, r.val)
                 /\ report_json' = AppendEntry(report_json, ReportEntry(r.val))
                 /\ idx' = idx + 1
                 /\ UNCHANGED <<pc, exc>>
    /\ UNCHANGED <<data, employees, saved, printed>>

\* lines 136-148: one turn of the loop; an exception leaves main
Iterate ==
    /\ pc = "loop"
    /\ idx <= Len(employees)
    /\ attempted' = Append(attempted, idx)
    /\ \E up \in Ups :
         LET r == compute_employee_payroll(employees[idx], up)
         IN IF r.st = "raise"
            THEN /\ exc' = r
                 /\ pc' = "crashed"
                 /\ UNCHANGED <<idx, results, report_json>>
            ELSE /\ results' = Append(results, r.val)
                 /\ report_json' = AppendEntry(report_json, ReportEntry(r.val))
                 /\ idx' = idx + 1
                 /\ UNCHANGED <<pc, exc>>
    /\ UNCHANGED <<data, employees, saved, printed>>

\* line 150: save_report(output_file, report_json)
Save ==
    /\ pc = "loop"
    /\ idx > Len(employees)
    /\ saved' = Append(saved, report_json)
    /\ pc' = "print"
    /\ UNCHANGED <<data, employees, idx, results, report_json, exc, printed, attempted>>

\* lines 151-152: print_report(results)
PrintReport ==
    /\ pc = "print"
    /\ printed' = Append(printed, results)
    /\ pc' = "done"
    /\ UNCHANGED <<data, employees, idx, results, report_json, exc, saved, attempted>>

----------------------------------------------------------------------------
(* Specifications *)

\* the batch run
Init == MainInit /\ RecIdle /\ TaxIdle

MainNext == Load \/ Iterate \/ Save \/ PrintReport

Next ==
    \/ Load /\ UNCHANGED <<taxVars, recVars>>
    \/ Iterate /\ UNCHANGED <<taxVars, recVars>>
    \/ Save /\ UNCHANGED <<taxVars, recVars>>
    \/ PrintReport /\ UNCHANGED <<taxVars, recVars>>

Spec == Init /\ [][Next]_vars

\* one call of compute_employee_payroll
InitRecord == RecInit /\ MainIdle /\ TaxIdle

NextRecord == Compute /\ UNCHANGED <<taxVars, mainVars>>

SpecRecord == InitRecord /\ [][NextRecord]_vars

\* calc_progressive_tax on two inputs
InitTax == TaxInit /\ MainIdle /\ RecIdle

NextTax == CalcTax /\ UNCHANGED <<recVars, mainVars>>

SpecTax == InitTax /\ [][NextTax]_vars

----------------------------------------------------------------------------
(* What the properties below read off a record *)

\* the value at path p of record e, Absent when e has none there
ValueAt(e, p) ==
    IF p[1] \notin DOMAIN e THEN Absent
    ELSE IF Len(p) = 1 THEN e[p[1]]
    ELSE IF e.pay.t # "obj" \/ p[2] \notin DOMAIN e.pay.m THEN Absent
    ELSE IF Len(p) = 2 THEN e.pay.m[p[2]]
    ELSE IF e.pay.m[p[2]].t # "obj" \/ p[3] \notin DOMAIN e.pay.m[p[2]].m THEN Absent
    ELSE e.pay.m[p[2]].m[p[3]]

Present(e, p) == ValueAt(e, p).t # "absent"

\* an id or name that is absent, empty or made of whitespace only
Blank(e, k) ==
    \/ k \notin DOMAIN e
    \/ /\ e[k].t = "str"
       /\ \A i \in 1..Len(e[k].s) : e[k].s[i] \in Whitespace

\* t is s without its leading and trailing whitespace
IsTrimOf(t, s) ==
    /\ Len(t) > 0
    /\ t[1] \notin Whitespace
    /\ t[Len(t)] \notin Whitespace
    /\ \E i \in 0..Len(s) :
          /\ i + Len(t) <= Len(s)
          /\ SubSeq(s, i + 1, i + Len(t)) = t
          /\ \A j \in 1..Len(s) : (j <= i \/ j > i + Len(t)) => s[j] \in Whitespace

IdentityValid(e) == ~Blank(e, "id") /\ ~Blank(e, "name")

\* the value is not numeric: float() raises TypeError or ValueError on it
NonNumeric(v) == ToFloat(v).st \in {"TypeError", "ValueError"}

\* the value converts to a negative number
Negative(v) == ToFloat(v).st = "ok" /\ Lt(ToFloat(v).n, Zero)

\* the value converts to a finite number that is not negative
FiniteNonNegative(v) ==
    /\ ToFloat(v).st = "ok"
    /\ IsFinite(ToFloat(v).n)
    /\ Le(Zero, ToFloat(v).n)

\* pay and the mappings of pay are mappings where present
ShapeValid(e) ==
    \A q \in ShapePaths : Present(e, q) => ValueAt(e, q).t = "obj"

\* every monetary field but p is absent or a finite number that is not negative
OthersValid(e, p) ==
    /\ IdentityValid(e)
    /\ ShapeValid(e)
    /\ \A q \in MoneyPaths \ {p} : Present(e, q) => FiniteNonNegative(ValueAt(e, q))

\* the amount of a monetary field, in units; an absent field counts 0
Amount(e, p) == IF Present(e, p) THEN ToFloat(ValueAt(e, p)).n.v ELSE 0

\* base + hra + da + bonus + other + hours * rate_per_hour, in units; the
\* product is a whole number of units (ProductsExact)
GrossSum(e) ==
    Amount(e, <<"pay", "base_salary">>)
    + Amount(e, <<"pay", "allowances", "hra">>)
    + Amount(e, <<"pay", "allowances", "da">>)
    + Amount(e, <<"pay", "allowances", "bonus">>)
    + Amount(e, <<"pay", "allowances", "other">>)
    + (Amount(e, <<"pay", "overtime", "hours">>)
       * Amount(e, <<"pay", "overtime", "rate_per_hour">>)) \div Scale

\* a is the amount x / fine rounded to 2 decimals, either way on a tie
IsRounded(a, x, fine) ==
    /\ IsFinite(a)
    /\ a.v % Cent = 0
    /\ 2 * (a.v * fine - x) <= Cent * fine
    /\ 2 * (x - a.v * fine) <= Cent * fine

Clamp(x, lo, hi) == IF x < lo THEN lo ELSE IF x > hi THEN hi ELSE x

\* the marginal-band tax of v units, in 1/PerCent of a unit: 0% up to 25,000,
\* 5% of the part up to 50,000, 10% of the part up to 100,000, 20% above
BandTax(v) ==
    0 * Clamp(v, 0, 25000 * Scale)
    + 5 * Clamp(v - 25000 * Scale, 0, 25000 * Scale)
    + 10 * Clamp(v - 50000 * Scale, 0, 50000 * Scale)
    + 20 * (IF v > 100000 * Scale THEN v - 100000 * Scale ELSE 0)

\* the record {id: "E1", name: "A", pay: {base_salary: 30000}}
ExampleRecord == Build(Override(BareForm, <<"pay", "base_salary">>, JNum(Whole(30000))))

\* compute_employee_payroll failed in the loop of main
ComputeFailed == exc.st = "raise" /\ exc.what \notin {"json", "not_array"}

\* the products hours * rate_per_hour of the records drawn are whole numbers
\* of units, so Mul is exact on them
ProductsExact ==
    rpc = "call" =>
        \/ ~Present(emp, <<"pay", "overtime", "hours">>)
        \/ ~Present(emp, <<"pay", "overtime", "rate_per_hour">>)
        \/ ~FiniteNonNegative(ValueAt(emp, <<"pay", "overtime", "hours">>))
        \/ ~FiniteNonNegative(ValueAt(emp, <<"pay", "overtime", "rate_per_hour">>))
        \/ (Amount(emp, <<"pay", "overtime", "hours">>)
            * Amount(emp, <<"pay", "overtime", "rate_per_hour">>)) % Scale = 0

----------------------------------------------------------------------------
(* Properties *)

\* C1: when compute_employee_payroll fails on the record at index N, main
\* stops there: the records called on are exactly 1..N, the N - 1 before it
\* gave the results held, save_report and print_report were not called, and
\* no step of main follows.
C1_AbortOnFirstFailure ==
    ComputeFailed =>
        /\ pc = "crashed"
        /\ attempted = [i \in 1..idx |-> i]
        /\ Len(results) = idx - 1
        /\ Len(report_json) = idx - 1
        /\ saved = << >>
        /\ printed = << >>
        /\ ~ENABLED MainNext

\* C1 witness: the third record fails after two succeeded
C1_Witness ==
    /\ ComputeFailed
    /\ idx = 3
    /\ Len(results) = 2
    /\ Len(employees) = 3

\* C2: once a batch went through, save_report was called once, with one entry
\* per record in the order of the input, each entry carrying the six values of
\* the result computed from the record at its index.
C2_ReportMatchesBatch ==
    pc \in {"print", "done"} =>
        /\ Len(saved) = 1
        /\ Len(saved[1]) = Len(employees)
        /\ Len(results) = Len(employees)
        /\ \A i \in 1..Len(employees) :
              \E up \in Ups :
                 LET r == compute_employee_payroll(employees[i], up)
                 IN /\ r.st = "ok"
                    /\ results[i] = r.val
                    /\ saved[1][i].id = r.val.employee_id
                    /\ saved[1][i].name = r.val.name
                    /\ saved[1][i].gross_pay = r.val.gross_pay
                    /\ saved[1][i].total_deductions = r.val.total_deductions
                    /\ saved[1][i].tax = r.val.tax
                    /\ saved[1][i].net_pay = r.val.net_pay

\* C2 witness: a report of three entries, no two alike
C2_Witness ==
    /\ pc = "done"
    /\ Len(saved) = 1
    /\ Len(saved[1]) = 3
    /\ saved[1][1] # saved[1][2]
    /\ saved[1][2] # saved[1][3]
    /\ saved[1][1] # saved[1][3]

\* C3: for a gross pay g >= 0 the tax is the marginal-band tax of g rounded to
\* 2 decimals (infinite for an infinite g); at 25000, 50000, 100000 and 150000
\* it is 0.00, 1250.00, 6250.00 and 16250.00.
C3_TaxIsBandTax ==
    (tpc = "done" /\ Le(Zero, g1)) =>
        /\ IsFinite(g1) => IsRounded(t1, BandTax(g1.v), PerCent)
        /\ g1 = PosInf => t1 = PosInf
        /\ g1 = Whole(25000) => t1 = Zero
        /\ g1 = Whole(50000) => t1 = Whole(1250)
        /\ g1 = Whole(100000) => t1 = Whole(6250)
        /\ g1 = Whole(150000) => t1 = Whole(16250)

\* C3 witness: the tax of 150000 is 16250.00
C3_Witness == tpc = "done" /\ g1 = Whole(150000) /\ t1 = Whole(16250)

\* C4: the tax of every gross pay is >= 0, and the tax of g1 is <= the tax
\* of g2 whenever g1 <= g2.
C4_TaxMonotone ==
    tpc = "done" =>
        /\ Le(Zero, t1)
        /\ Le(Zero, t2)
        /\ Le(g1, g2) => Le(t1, t2)

\* what holds of calc_progressive_tax in place of C4: the same, for every
\* gross pay that is a number
TaxMonotoneOnNumbers ==
    (tpc = "done" /\ ~IsNaN(g1) /\ ~IsNaN(g2)) =>
        /\ Le(Zero, t1)
        /\ Le(Zero, t2)
        /\ Le(g1, g2) => Le(t1, t2)

\* C5: in every result net_pay is gross_pay - total_deductions - tax, and it
\* is negative whenever the deductions and the tax together exceed gross_pay.
C5_NetPay ==
    (rpc = "done" /\ out.st = "ok") =>
        /\ out.val.net_pay
             = Sub(Sub(out.val.gross_pay, out.val.total_deductions), out.val.tax)
        /\ Lt(out.val.gross_pay, Add(out.val.total_deductions, out.val.tax))
             => Lt(out.val.net_pay, Zero)

\* C5 witness: a result whose net pay is negative
C5_Witness ==
    /\ rpc = "done"
    /\ out.st = "ok"
    /\ IsFinite(out.val.net_pay)
    /\ out.val.net_pay.v < 0
    /\ out.val.gross_pay.v > 0

\* C6: a record with an id and a name, whose pay and mappings of pay are
\* mappings or absent and whose monetary fields are finite numbers >= 0 or
\* absent, gives a result whose gross_pay is base_salary + hra + da + bonus +
\* other + hours * rate_per_hour rounded to 2 decimals, an absent field
\* counting 0; the record {id: E1, name: A, pay: {base_salary: 30000}} gives
\* gross 30000.00, deductions 0.00, tax 250.00, net 29750.00.
C6_GrossPay ==
    (rpc = "done" /\ IdentityValid(emp) /\ ShapeValid(emp)
     /\ \A q \in MoneyPaths : Present(emp, q) => FiniteNonNegative(ValueAt(emp, q))) =>
        /\ out.st = "ok"
        /\ IsRounded(out.val.gross_pay, GrossSum(emp), 1)
        /\ emp = ExampleRecord =>
              out.val = PayrollResult(<<"E", "1">>, <<"A">>, Whole(30000), Zero,
                                      Whole(250), Whole(29750))

\* C6 witness: a record with base salary, bonus and overtime and no deductions
C6_Witness ==
    /\ rpc = "done"
    /\ out.st = "ok"
    /\ Present(emp, <<"pay", "base_salary">>)
    /\ Present(emp, <<"pay", "allowances", "bonus">>)
    /\ ~Present(emp, <<"pay", "allowances", "hra">>)
    /\ ~Present(emp, <<"pay", "deductions">>)
    /\ Amount(emp, <<"pay", "overtime", "hours">>) = 1500
    /\ Amount(emp, <<"pay", "overtime", "rate_per_hour">>) = 100 * Scale
    /\ out.val.gross_pay = Fin(GrossSum(emp) + 5)

\* C7: a record whose id or name is absent, empty or whitespace only fails
\* with the missing-identity error; a record that is accepted has neither, and
\* the result carries its id and name without the leading and trailing
\* whitespace.
C7_Identity ==
    rpc = "done" =>
        /\ (Blank(emp, "id") \/ Blank(emp, "name"))
              => out = Raise("ValueError", "missing_identity", "")
        /\ out.st = "ok" =>
              /\ IdentityValid(emp)
              /\ IsTrimOf(out.val.employee_id, Str(emp.id))
              /\ IsTrimOf(out.val.name, Str(emp.name))

\* C7 witness: the id " E1\n" is accepted as "E1"
C7_Witness ==
    /\ rpc = "done"
    /\ out.st = "ok"
    /\ emp.id = JStr(<<" ", "E", "1", "\n">>)
    /\ out.val.employee_id = <<"E", "1">>

C9_MalformedInput ==
    /\ (pc # "load" /\ data.t \notin {"array", "invalid"})
          => exc = Raise("ValueError", "not_array", "")
    /\ \A i \in 1..Len(attempted) :
          (IdentityValid(employees[i]) /\ Present(employees[i], <<"pay">>)
           /\ employees[i].pay.t # "obj")
             => (exc.st = "raise" /\ exc.type = "ValueError" /\ idx = i)

\* C10: a record is accepted only if every monetary field present in it is a
\* finite number that is not negative.
C10_FiniteNonNegative ==
    (rpc = "done" /\ out.st = "ok") =>
        \A p \in MoneyPaths :
            Present(emp, p) => FiniteNonNegative(ValueAt(emp, p))

====
